---- MODULE Spec2Model ----
(***************************************************************************)
(* Habit Grove (src/script.js): the in-memory AppState (habits,            *)
(* completions, points), its persisted snapshot, the wall clock the code   *)
(* reads, and the handlers that mutate the state: the habit checkbox       *)
(* change handler (toggleHabitForToday), the clear-today click handler and *)
(* the add-habit submit handler, each with the renders it triggers.        *)
(*                                                                         *)
(* Time.  An instant is a number of hours since the epoch of the model;    *)
(* day key k ("YYYY-MM-DD") is the UTC day [24k, 24k+24).  The code mixes  *)
(* UTC (toISOString, new Date("YYYY-MM-DD")) with local time (getDate,     *)
(* setDate), so the time zone of the browser is an input of every date      *)
(* computation; no handler reads it into the state.                        *)
(***************************************************************************)
EXTENDS Integers, Sequences, FiniteSets, TLC

VARIABLES
    habits,       \* state.habits: sequence of [id, name, createdAt, order]
    completions,  \* state.completions: day key -> (habit id -> BOOLEAN)
    points,       \* state.points
    storage,      \* localStorage[STORAGE_KEY]: NoStorage or the saved snapshot
    today,        \* the UTC day the clock is in (getTodayKey)
    tick,         \* clock ticks into the day at the last reading of Date.now()
    levelView,    \* what renderPointsAndLevel last wrote to the DOM
    nOps,         \* number of handler invocations so far (bounds the run)
    last          \* the most recent step: its inputs and what it read before writing

vars == <<habits, completions, points, storage, today, tick, levelView, nOps, last>>

-----------------------------------------------------------------------------
(* Bounds of the model *)

MaxDay == 3
TicksPerDay == 2
MaxOps == 3
MaxHabits == 5
MaxWalk == 9
MaxLevelPoints == 500

(* Program constants *)

HoursPerDay == 24
CalendarDays == 28
PointsPerCompletion == 5

-----------------------------------------------------------------------------
(* Small helpers *)

Max(S) == CHOOSE x \in S : \A y \in S : y <= x
Min(S) == CHOOSE x \in S : \A y \in S : x <= y

-----------------------------------------------------------------------------
(* Dates.  A time zone is a base UTC offset and a sequence of transitions   *)
(* (ascending instant `at`, offset `off` in force from `at` on).            *)

UTC == [name |-> "UTC", base |-> 0, transitions |-> <<>>]

\* America/New_York around the end of daylight time: EDT (-4) until 02:00
\* local on day 2 (06:00 UTC), EST (-5) from then on.
NewYorkAutumn ==
    [name |-> "America/New_York (autumn)", base |-> 0 - 4,
     transitions |-> << [at |-> 2 * HoursPerDay + 6, off |-> 0 - 5] >>]

\* Europe/Berlin around the end of summer time: CEST (+2) until 01:00 UTC on
\* day 2, CET (+1) from then on.
BerlinAutumn ==
    [name |-> "Europe/Berlin (autumn)", base |-> 2,
     transitions |-> << [at |-> 2 * HoursPerDay + 1, off |-> 1] >>]

\* America/New_York over a year, the months between the two transitions left
\* out: EST, daylight time from 02:00 local on day 1 (07:00 UTC) to 02:00
\* local on day 2 (06:00 UTC), EST again.
NewYorkYear ==
    [name |-> "America/New_York (year)", base |-> 0 - 5,
     transitions |-> << [at |-> 1 * HoursPerDay + 7, off |-> 0 - 4],
                        [at |-> 2 * HoursPerDay + 6, off |-> 0 - 5] >>]

\* the time zones a browser of the model may run in
TimeZones == {UTC, NewYorkAutumn, BerlinAutumn, NewYorkYear}

\* The UTC offset in force at instant t.
Offset(z, t) ==
    LET past == {i \in 1..Len(z.transitions) : z.transitions[i].at <= t}
    IN  IF past = {} THEN z.base ELSE z.transitions[Max(past)].off

\* The instant whose local wall-clock reading is `wall` (ECMAScript UTC(t)):
\* a reading that occurs twice, or never, is read with the offset in force
\* before the transition.
LocalToUTC(z, wall) ==
    LET offs   == {z.base} \cup {z.transitions[i].off : i \in 1..Len(z.transitions)}
        valid  == {t \in {wall - o : o \in offs} : Offset(z, t) = wall - t}
        gaps   == {i \in 1..Len(z.transitions) :
                     /\ z.transitions[i].at + Offset(z, z.transitions[i].at - 1) <= wall
                     /\ wall < z.transitions[i].at + z.transitions[i].off}
    IN  IF valid # {} THEN Min(valid)
        ELSE wall - Offset(z, z.transitions[Min(gaps)].at - 1)

\* new Date("YYYY-MM-DD"): midnight UTC of that day.
DateOfKey(key) == key * HoursPerDay

\* d.toISOString().slice(0, 10): the UTC day of the instant.
KeyOfDate(t) == t \div HoursPerDay

\* d.setDate(d.getDate() - n): the same local wall-clock time n local days back.
SetDateBack(z, t, n) == LocalToUTC(z, (t + Offset(z, t)) - n * HoursPerDay)

-----------------------------------------------------------------------------
(* Persistence *)

NoStorage == [none |-> TRUE]

\* saveState: JSON.stringify of the whole state, stored under STORAGE_KEY.
saveState(hs, comp, pts) == [habits |-> hs, completions |-> comp, points |-> pts]

\* getTodayKey
getTodayKey == today

\* Date.now(), in clock ticks
DateNow == today * TicksPerDay + tick

-----------------------------------------------------------------------------
(* Initial state *)

\* A string the code trims is [lead, text, trail]: `lead` whitespace
\* characters, then `text` (which neither starts nor ends with whitespace),
\* then `trail` whitespace characters.
Str(lead, text, trail) == [lead |-> lead, text |-> text, trail |-> trail]

DEFAULT_HABITS ==
    << [id |-> "water", name |-> Str(0, "Drink 6 glasses of water", 0)],
       [id |-> "move", name |-> Str(0, "Move your body for 20 minutes", 0)],
       [id |-> "read", name |-> Str(0, "Read for 10 minutes", 0)] >>

createInitialState ==
    [habits |-> [i \in 1..Len(DEFAULT_HABITS) |->
                    [id |-> DEFAULT_HABITS[i].id, name |-> DEFAULT_HABITS[i].name,
                     createdAt |-> getTodayKey, order |-> i - 1]],
     completions |-> [k \in {} |-> TRUE],
     points |-> 0]

-----------------------------------------------------------------------------
(* The completion ledger *)

EmptyDay == [h \in {} |-> TRUE]

\* (variant: a missing entry is created in a ledger started afresh)
ensureDateEntryAfresh(comp, dateKey) ==
    IF dateKey \in DOMAIN comp THEN comp ELSE (dateKey :> EmptyDay)

ensureDateEntry(comp, dateKey) ==
    IF dateKey \in DOMAIN comp THEN comp ELSE comp @@ (dateKey :> EmptyDay)

\* Boolean(day[habitId]) for a day object
Truthy(day, habitId) == habitId \in DOMAIN day /\ day[habitId]

isHabitDoneOnDate(comp, habitId, dateKey) ==
    IF dateKey \in DOMAIN comp THEN Truthy(comp[dateKey], habitId) ELSE FALSE

\* (variant: an existing value of the habit key wins over the written one)
SetDoneKeepOld(comp, dateKey, habitId, done) ==
    [comp EXCEPT ![dateKey] = @ @@ (habitId :> done)]

\* state.completions[todayKey][habitId] = done
SetDone(comp, dateKey, habitId, done) ==
    [comp EXCEPT ![dateKey] = (habitId :> done) @@ @]

\* (variant: scores every call, whatever the prior done-state)
TogglePointsPerCall(pts, alreadyDone, done) ==
    IF done THEN pts + PointsPerCompletion ELSE pts - PointsPerCompletion

\* (variant: awards a completion again when the habit was already done)
TogglePointsAwardAgain(pts, alreadyDone, done) ==
    IF done THEN pts + PointsPerCompletion
    ELSE IF alreadyDone THEN Max({0, pts - PointsPerCompletion})
    ELSE pts

\* (variant: a completion taken back keeps its points)
TogglePointsNoRefund(pts, alreadyDone, done) ==
    IF ~alreadyDone /\ done THEN pts + PointsPerCompletion ELSE pts

\* the points branch of toggleHabitForToday
TogglePoints(pts, alreadyDone, done) ==
    IF ~alreadyDone /\ done THEN pts + PointsPerCompletion
    ELSE IF alreadyDone /\ ~done THEN Max({0, pts - PointsPerCompletion})
    ELSE pts

-----------------------------------------------------------------------------
(* IEEE 754 double arithmetic, as far as getLevelInfo needs it.  A          *)
(* non-negative double is [bits, frac]: the integer whose binary digits are *)
(* `bits` (most significant first) times 2^(-frac); zero has no digits.     *)
(* At most MantissaBits digits are significant.  Numbers of the model stay  *)
(* below 2^31, so wide values are handled as digit sequences and in limbs   *)
(* of 14 digits.                                                            *)

MantissaBits == 53

\* digit i of bits, 0 outside it
BitAt(bits, i) == IF 1 <= i /\ i <= Len(bits) THEN bits[i] ELSE 0

\* the n low digits of integer v, most significant first
BitsOfInt(v, n) == [i \in 1..n |-> (v \div 2 ^ (n - i)) % 2]

\* the integer whose 7 digits end at digit `to` of bits
Int7(bits, to) ==
    64 * BitAt(bits, to - 6) + 32 * BitAt(bits, to - 5) + 16 * BitAt(bits, to - 4)
    + 8 * BitAt(bits, to - 3) + 4 * BitAt(bits, to - 2) + 2 * BitAt(bits, to - 1)
    + BitAt(bits, to)

\* the integer whose 14 digits (a limb) end at digit `to` of bits
Limb(bits, to) == 128 * Int7(bits, to - 7) + Int7(bits, to)

\* bits without its leading zeros
StripZeros(bits) ==
    LET ones == {i \in 1..Len(bits) : bits[i] = 1}
    IN  IF ones = {} THEN <<>> ELSE SubSeq(bits, Min(ones), Len(bits))

\* bits + 1
IncBits(bits) ==
    LET zeros == {i \in 1..Len(bits) : bits[i] = 0}
    IN  IF zeros = {} THEN <<1>> \o [i \in 1..Len(bits) |-> 0]
        ELSE [i \in 1..Len(bits) |->
                 IF i < Max(zeros) THEN bits[i] ELSE IF i = Max(zeros) THEN 1 ELSE 0]

\* Round an exact binary value (with `sticky`: a non-zero tail below the
\* last digit) to the nearest double, ties to even.
RoundToDouble(bits, frac, sticky) ==
    IF Len(bits) <= MantissaBits THEN [bits |-> bits, frac |-> frac]
    ELSE LET kept  == SubSeq(bits, 1, MantissaBits)
             half  == bits[MantissaBits + 1] = 1
             below == sticky \/ \E i \in (MantissaBits + 2)..Len(bits) : bits[i] = 1
             up    == half /\ (below \/ kept[MantissaBits] = 1)
         IN  [bits |-> IF up THEN IncBits(kept) ELSE kept,
              frac |-> frac - (Len(bits) - MantissaBits)]

\* 2^i mod b, for 0 <= i <= 72
Pow2Mod(i, b) ==
    LET e1 == Min({i, 24})
        e2 == Min({i - e1, 24})
        e3 == i - e1 - e2
    IN  (((((2 ^ e1) % b) * ((2 ^ e2) % b)) % b) * ((2 ^ e3) % b)) % b

\* the remainder of binary long division a / b after i digits of the fraction
DivRem(a, b, i) == (a * Pow2Mod(i, b)) % b

\* digit i of the binary fraction of a / b
DivDigit(a, b, i) == (2 * DivRem(a, b, i - 1)) \div b

\* a / b in double arithmetic, for integers 0 <= a < b < 256: the first
\* MantissaBits + 1 significant digits of the quotient, rounded.
FloatDiv(a, b) ==
    IF a = 0 THEN [bits |-> <<>>, frac |-> 0]
    ELSE LET first == Min({i \in 1..9 : DivDigit(a, b, i) = 1})
             n     == MantissaBits + 1
         IN  RoundToDouble([j \in 1..n |-> DivDigit(a, b, first + j - 1)],
                           first + n - 1,
                           DivRem(a, b, first + n - 1) # 0)

\* bits * n exactly, for Len(bits) <= 56 (four limbs) and 0 < n < 128
BitsTimes(bits, n) ==
    LET len == Len(bits)
        v4  == Limb(bits, len) * n
        v3  == Limb(bits, len - 14) * n + v4 \div 2 ^ 14
        v2  == Limb(bits, len - 28) * n + v3 \div 2 ^ 14
        v1  == Limb(bits, len - 42) * n + v2 \div 2 ^ 14
    IN  StripZeros(BitsOfInt(v1, 21) \o BitsOfInt(v2 % 2 ^ 14, 14)
                   \o BitsOfInt(v3 % 2 ^ 14, 14) \o BitsOfInt(v4 % 2 ^ 14, 14))

\* x * n in double arithmetic, 0 < n < 128
FloatTimesInt(x, n) == RoundToDouble(BitsTimes(x.bits, n), x.frac, FALSE)

\* Math.round(x), 0 <= x < 128: floor(x + 1/2)
MathRound(x) ==
    LET intLen == Len(x.bits) - x.frac
    IN  IF intLen < 0 THEN 0 ELSE Int7(x.bits, intLen) + BitAt(x.bits, intLen + 1)

-----
(* Levels & scoring *)

LEVELS ==
    << [label |-> "Seedling", threshold |-> 0],
       [label |-> "Sprout", threshold |-> 40],
       [label |-> "Sapling", threshold |-> 120],
       [label |-> "Young tree", threshold |-> 260],
       [label |-> "Grove guardian", threshold |-> 480] >>

NoLevel == [label |-> "", threshold |-> 0 - 1]

TopTierCaption == "You reached the top tier - keep the grove thriving!"

\* the for loop of getLevelInfo, from index i on
RECURSIVE LevelScan(_, _, _, _)
LevelScan(pts, i, current, next) ==
    IF i > Len(LEVELS) THEN [current |-> current, next |-> next]
    ELSE IF pts >= LEVELS[i].threshold
         THEN LevelScan(pts, i + 1, LEVELS[i],
                        IF i + 1 <= Len(LEVELS) THEN LEVELS[i + 1] ELSE NoLevel)
         ELSE LevelScan(pts, i + 1, current, next)

\* Math.round((into / span) * 100)
Percent(into, span) == MathRound(FloatTimesInt(FloatDiv(into, span), 100))

getLevelInfo(pts) ==
    LET scan    == LevelScan(pts, 1, LEVELS[1], NoLevel)
        current == scan.current
        next    == scan.next
    IN  IF next = NoLevel
        THEN [label |-> current.label, progressPercent |-> 100, caption |-> TopTierCaption]
        ELSE [label |-> current.label,
              progressPercent |-> Min({100, Percent(pts - current.threshold,
                                                    next.threshold - current.threshold)}),
              caption |-> ToString(next.threshold - pts) \o " points until "
                          \o next.label \o "."]

\* getLevelInfo over the points of the model, evaluated once
LevelInfoTable == [p \in 0..MaxLevelPoints |-> getLevelInfo(p)]

\* renderPointsAndLevel: what it writes to the level elements
renderPointsAndLevel(pts) ==
    IF pts \in DOMAIN LevelInfoTable THEN LevelInfoTable[pts] ELSE getLevelInfo(pts)

-----------------------------------------------------------------------------
(* Streaks and day quality *)

\* The while loop of computeStreak from `cursor` on: the streak counted and
\* the number of loop iterations made (the breaking one included).  The walk
\* of the model gives up after MaxWalk iterations.
RECURSIVE StreakWalk(_, _, _, _, _, _)
StreakWalk(z, comp, habitId, cursor, streak, steps) ==
    LET key == KeyOfDate(cursor)
    IN  IF steps >= MaxWalk THEN [streak |-> streak, steps |-> steps]
        ELSE IF key \notin DOMAIN comp \/ ~Truthy(comp[key], habitId)
             THEN [streak |-> streak, steps |-> steps + 1]
             ELSE StreakWalk(z, comp, habitId, SetDateBack(z, cursor, 1),
                             streak + 1, steps + 1)

computeStreak(z, comp, todayKey, habitId) ==
    StreakWalk(z, comp, habitId, DateOfKey(todayKey), 0, 0)

\* buildCalendarRange(daysBack): for i = daysBack - 1 down to 0, a copy of
\* new Date(todayKey) set back i local days, with its UTC day as key
buildCalendarRange(z, todayKey, daysBack) ==
    [j \in 1..daysBack |->
        LET d == SetDateBack(z, DateOfKey(todayKey), daysBack - j)
        IN  [key |-> KeyOfDate(d), date |-> d]]

\* the forEach of getDateCompletionQuality over state.habits[i..]
RECURSIVE CountDone(_, _, _)
CountDone(hs, day, i) ==
    IF i > Len(hs) THEN 0
    ELSE (IF Truthy(day, hs[i].id) THEN 1 ELSE 0) + CountDone(hs, day, i + 1)

\* (variant: measures against the habits recorded in the day, not the registry)
getDateCompletionQualityRecorded(hs, comp, dateKey) ==
    IF dateKey \notin DOMAIN comp THEN ""
    ELSE IF Len(hs) = 0 THEN ""
    ELSE LET doneCount == CountDone(hs, comp[dateKey], 1)
         IN  IF doneCount = 0 THEN "missed"
             ELSE IF doneCount = Cardinality(DOMAIN comp[dateKey]) THEN "done"
             ELSE "partial"

getDateCompletionQuality(hs, comp, dateKey) ==
    IF dateKey \notin DOMAIN comp THEN ""
    ELSE IF Len(hs) = 0 THEN ""
    ELSE LET doneCount == CountDone(hs, comp[dateKey], 1)
         IN  IF doneCount = 0 THEN "missed"
             ELSE IF doneCount = Len(hs) THEN "done"
             ELSE "partial"

-----------------------------------------------------------------------------
(* The habit registry *)

EmptyString == Str(0, "", 0)

\* (variant: the name is taken as typed)
TrimNothing(name) == name

\* String.prototype.trim
Trim(name) == Str(0, name.text, 0)

\* `habit_${Date.now()}`
NewHabitId(now) == "habit_" \o ToString(now)

\* 1 + the greatest order, 0 for an empty registry
NewHabitOrder(hs) ==
    IF Len(hs) > 0 THEN Max({hs[i].order : i \in 1..Len(hs)}) + 1 ELSE 0

\* (variant: the new habit goes to the front of the array)
PushHabitFront(hs, name, now, todayKey) ==
    << [id |-> NewHabitId(now), name |-> name,
        createdAt |-> todayKey, order |-> NewHabitOrder(hs)] >> \o hs

\* state.habits.push({ id, name, createdAt, order })
PushHabit(hs, name, now, todayKey) ==
    Append(hs, [id |-> NewHabitId(now), name |-> name,
                createdAt |-> todayKey, order |-> NewHabitOrder(hs)])

HabitIds(hs) == {hs[i].id : i \in 1..Len(hs)}

\* what a user may type into the habit name input
NameInputs == { EmptyString, Str(2, "", 0), Str(1, "Run", 1) }

-----------------------------------------------------------------------------
(* Clearing today *)

\* the forEach of the clear-today handler: one floored decrement per habit
\* id whose value in the day object is true
RECURSIVE ClearPoints(_, _)
ClearPoints(pts, n) ==
    IF n = 0 THEN pts ELSE ClearPoints(Max({0, pts - PointsPerCompletion}), n - 1)

\* (variant: every recorded habit id counts, done or not)
DoneIdsAnyValue(day) == DOMAIN day

\* Object.keys(day).filter(habitId => day[habitId])
DoneIds(day) == {h \in DOMAIN day : day[h]}

\* state.completions[todayKey] = {}
ClearDay(comp, dateKey) == [comp EXCEPT ![dateKey] = EmptyDay]

-----------------------------------------------------------------------------
(* The state machine *)

\* What a step records in `last`: the handler, its inputs, and what the
\* state was when it started.
Step(op, habitId, done, name) ==
    [op |-> op, habitId |-> habitId, done |-> done, name |-> name,
     wasDone |-> isHabitDoneOnDate(completions, habitId, today),
     hadEntry |-> today \in DOMAIN completions,
     prePoints |-> points,
     preDone |-> IF today \in DOMAIN completions
                 THEN Cardinality({h \in DOMAIN completions[today] : completions[today][h]})
                 ELSE 0]

Init ==
    /\ today = 0
    /\ tick = 0
    /\ habits = createInitialState.habits
    \* the initial renderHabitList materializes today's entry
    /\ completions = ensureDateEntry(createInitialState.completions, getTodayKey)
    /\ points = createInitialState.points
    /\ storage = NoStorage
    /\ levelView = renderPointsAndLevel(createInitialState.points)
    /\ nOps = 0
    /\ last = [op |-> "init", habitId |-> "", done |-> FALSE, name |-> EmptyString,
               wasDone |-> FALSE, hadEntry |-> FALSE, prePoints |-> 0,
               preDone |-> 0]

\* The change handler of a habit checkbox: toggleHabitForToday(habitId, done)
\* (which saves and renders points, history and calendar), then renderHabitList.
ToggleHabit(habitId, done) ==
    /\ nOps < MaxOps
    /\ habitId \in HabitIds(habits)
    /\ LET todayKey    == getTodayKey
           ensured     == ensureDateEntry(completions, todayKey)
           alreadyDone == Truthy(ensured[todayKey], habitId)
           written     == SetDone(ensured, todayKey, habitId, done)
           pts         == TogglePoints(points, alreadyDone, done)
       IN  /\ points' = pts
           /\ storage' = saveState(habits, written, pts)
           /\ levelView' = renderPointsAndLevel(pts)
           /\ completions' = ensureDateEntry(written, todayKey)
           /\ last' = Step("toggle", habitId, done, EmptyString)
    /\ nOps' = nOps + 1
    /\ UNCHANGED <<habits, today, tick>>

\* The click handler of the clear-today button.
ClearToday ==
    /\ nOps < MaxOps
    /\ LET todayKey == getTodayKey
       IN  IF todayKey \notin DOMAIN completions
           THEN UNCHANGED <<completions, points, storage, levelView>>
           ELSE LET pts     == ClearPoints(points,
                                           Cardinality(DoneIds(completions[todayKey])))
                    cleared == ClearDay(completions, todayKey)
                IN  /\ points' = pts
                    /\ storage' = saveState(habits, cleared, pts)
                    /\ levelView' = renderPointsAndLevel(pts)
                    /\ completions' = ensureDateEntry(cleared, todayKey)
    /\ last' = Step("clear", "", FALSE, EmptyString)
    /\ nOps' = nOps + 1
    /\ UNCHANGED <<habits, today, tick>>

\* The submit handler of the add-habit form.  `elapsed` is the number of clock
\* ticks since Date.now() was last read (0: the clock value has not advanced).
AddHabit(name, elapsed) ==
    /\ nOps < MaxOps
    /\ UNCHANGED <<points, levelView, today>>
    /\ IF Trim(name) = EmptyString
       THEN UNCHANGED <<habits, completions, storage, tick>>
       ELSE /\ Len(habits) < MaxHabits
            /\ tick + elapsed < TicksPerDay
            /\ tick' = tick + elapsed
            /\ habits' = PushHabit(habits, Trim(name), DateNow', getTodayKey)
            /\ storage' = saveState(habits', completions, points)
            \* renderHabitList, after the save
            /\ completions' = ensureDateEntry(completions, getTodayKey)
    /\ last' = Step("add", "", FALSE, name)
    /\ nOps' = nOps + 1

\* The clock passes midnight UTC.
DayRollover ==
    /\ today < MaxDay
    /\ today' = today + 1
    /\ tick' = 0
    /\ last' = Step("rollover", "", FALSE, EmptyString)
    /\ UNCHANGED <<habits, completions, points, storage, levelView, nOps>>

Next ==
    \/ \E h \in HabitIds(habits), done \in BOOLEAN : ToggleHabit(h, done)
    \/ ClearToday
    \/ \E name \in NameInputs, elapsed \in 0..1 : AddHabit(name, elapsed)
    \/ DayRollover

Spec == Init /\ [][Next]_vars

-----------------------------------------------------------------------------
(* getLevelInfo as a function of the points: every value of 0..MaxLevelPoints *)
(* is rendered once.                                                          *)

Unrendered == [label |-> "", progressPercent |-> 0, caption |-> ""]

InitLevel ==
    /\ today = 0
    /\ tick = 0
    /\ habits = createInitialState.habits
    /\ completions = ensureDateEntry(createInitialState.completions, getTodayKey)
    /\ points \in 0..MaxLevelPoints
    /\ storage = NoStorage
    /\ levelView = Unrendered
    /\ nOps = 0
    /\ last = [op |-> "init", habitId |-> "", done |-> FALSE, name |-> EmptyString,
               wasDone |-> FALSE, hadEntry |-> FALSE, prePoints |-> 0,
               preDone |-> 0]

RenderPointsAndLevel ==
    /\ last.op = "init"
    /\ levelView' = renderPointsAndLevel(points)
    /\ last' = Step("render", "", FALSE, EmptyString)
    /\ UNCHANGED <<habits, completions, points, storage, today, tick, nOps>>

NextLevel == RenderPointsAndLevel

SpecLevel == InitLevel /\ [][NextLevel]_vars

-----------------------------------------------------------------------------
(* Properties *)

\* the days the model can name: one before the first, up to the last
Days == (0 - 1)..MaxDay

\* C1: in every reachable state, state.points is an integer >= 0.
C1_PointsNonNegative == points \in Nat

\* C1 witness: a decrement has acted and left the points at the floor
C1_Witness ==
    /\ last.op \in {"toggle", "clear"}
    /\ last.prePoints > 0
    /\ points = 0

\* C2: a toggle changes the points by the transition rule on the prior
\* done-state of (habit, today): +5 for false -> true, -5 floored at 0 for
\* true -> false, nothing otherwise.
C2_ToggleTransitionRule ==
    last.op = "toggle" =>
        points = IF ~last.wasDone /\ last.done THEN last.prePoints + 5
                 ELSE IF last.wasDone /\ ~last.done
                      THEN (IF last.prePoints >= 5 THEN last.prePoints - 5 ELSE 0)
                 ELSE last.prePoints

\* C2 witness: a habit already done is marked done again
C2_Witness ==
    /\ last.op = "toggle"
    /\ last.done
    /\ last.wasDone
    /\ points = last.prePoints

\* C3: right after toggleHabitForToday(h, v), isHabitDoneOnDate(h, today) is v.
C3_ToggleRoundTrip ==
    last.op = "toggle" =>
        isHabitDoneOnDate(completions, last.habitId, today) = last.done

\* C3 witness: the write went over a value of the other polarity
C3_Witness ==
    /\ last.op = "toggle"
    /\ last.hadEntry
    /\ last.wasDone
    /\ ~last.done

\* C4: clear-day on an existing entry of today removes 5 points (floored at 0)
\* per habit id that is true in it and leaves the entry present and empty, so
\* that the day's quality is "missed" when a habit is registered; on an absent
\* or empty entry it changes neither points nor ledger.
C4_ClearDay ==
    [][ last'.op = "clear" =>
          LET present == today \in DOMAIN completions
              n == IF present
                   THEN Cardinality({h \in DOMAIN completions[today] :
                                        completions[today][h] = TRUE})
                   ELSE 0
          IN  /\ present =>
                    /\ points' = (IF points >= 5 * n THEN points - 5 * n ELSE 0)
                    /\ today \in DOMAIN completions'
                    /\ DOMAIN completions'[today] = {}
                    /\ Len(habits') >= 1 =>
                          getDateCompletionQuality(habits', completions', today) = "missed"
              /\ (~present \/ DOMAIN completions[today] = {}) =>
                    /\ points' = points
                    /\ completions' = completions ]_vars

\* C4 witness: the day cleared had one habit done and another recorded not done
C4_Witness ==
    /\ last.op = "clear"
    /\ last.preDone = 1
    /\ points = last.prePoints - 5
    /\ getDateCompletionQuality(habits, completions, today) = "missed"

\* C5: day quality is measured against the whole registry: unrecorded without
\* a day entry or without habits, else missed / done / partial by the number
\* of registered habits done that day.  Checked for every prefix of the
\* registry (the empty one included) on every day of the model.
C5_DayQuality ==
    \A k \in 0..Len(habits), d \in Days :
        LET hs        == SubSeq(habits, 1, k)
            doneCount == Cardinality({i \in 1..k :
                                        isHabitDoneOnDate(completions, habits[i].id, d)})
        IN  getDateCompletionQuality(hs, completions, d) =
                IF d \notin DOMAIN completions \/ k = 0 THEN ""
                ELSE IF doneCount = 0 THEN "missed"
                ELSE IF doneCount = k THEN "done"
                ELSE "partial"

\* C5 witness: today is partial, and done for a shorter registry
C5_Witness ==
    /\ getDateCompletionQuality(habits, completions, today) = "partial"
    /\ getDateCompletionQuality(SubSeq(habits, 1, 1), completions, today) = "done"
\* the length of the longest run of consecutive day keys, ending at and
\* including today, on each of which the habit is done
RunEndingToday(habitId) ==
    Max({n \in 0..(today + 2) :
            \A i \in 0..(n - 1) : isHabitDoneOnDate(completions, habitId, today - i)})

\* C6: computeStreak(h) is the length of the maximal run of consecutive
\* calendar days ending at and including today on which h is done (0 when h is
\* not done today, 3 when done today and the 2 days before but not 3 days
\* ago), in whatever time zone the browser runs.
C6_StreakIsRunEndingToday ==
    \A z \in TimeZones, h \in HabitIds(habits) :
        computeStreak(z, completions, today, h).streak = RunEndingToday(h)

\* C7: the backward walk of computeStreak ends within (number of day entries
\* of the ledger) + 1 iterations, in whatever time zone the browser runs.
C7_StreakWalkBounded ==
    \A z \in TimeZones, h \in HabitIds(habits) :
        computeStreak(z, completions, today, h).steps
            <= Cardinality(DOMAIN completions) + 1

\* round(100 * into / span), halves rounded up
RoundedPercent(into, span) == (200 * into + span) \div (2 * span)

\* C8: getLevelInfo(points) names the tier with the greatest threshold <=
\* points; for the last tier the progress is 100 with the top-tier caption,
\* otherwise it is min(100, round(100 * (points - current) / (next - current)))
\* within 0..100 and the caption reports next - points; getLevelInfo(0) is the
\* first tier at 0 percent.
C8_LevelInfo ==
    last.op = "render" =>
        LET i == Max({j \in 1..Len(LEVELS) : LEVELS[j].threshold <= points})
        IN  /\ levelView.label = LEVELS[i].label
            /\ levelView.progressPercent \in 0..100
            /\ IF i = Len(LEVELS)
               THEN /\ levelView.progressPercent = 100
                    /\ levelView.caption = TopTierCaption
               ELSE /\ levelView.progressPercent =
                          Min({100, RoundedPercent(points - LEVELS[i].threshold,
                                     LEVELS[i + 1].threshold - LEVELS[i].threshold)})
                    /\ levelView.caption =
                          ToString(LEVELS[i + 1].threshold - points)
                          \o " points until " \o LEVELS[i + 1].label \o "."
            /\ points = 0 =>
                  levelView.label = LEVELS[1].label /\ levelView.progressPercent = 0

\* C9: no two habits of the registry share an id.
C9_HabitIdsUnique ==
    \A i, j \in 1..Len(habits) : i # j => habits[i].id # habits[j].id

\* C10: add-habit with a name made of whitespace only (or empty) changes
\* neither habits, completions, points nor the persisted snapshot.
C10_BlankNameIsNoOp ==
    [][ (last'.op = "add" /\ last'.name.text = "")
          => UNCHANGED <<habits, completions, points, storage>> ]_vars

\* C10 witness: a name of spaces was submitted on a day whose entry does not
\* exist yet, after the state had been saved
C10_Witness ==
    /\ last.op = "add"
    /\ last.name.text = ""
    /\ last.name.lead > 0
    /\ ~last.hadEntry
    /\ today \notin DOMAIN completions
    /\ storage # NoStorage

\* an add-habit step whose name is not blank after trimming
AddedStep == last'.op = "add" /\ last'.name.text # ""

\* what such a step does to the registry: one habit appended, its order one
\* more than the greatest order so far (0 for an empty registry), hence
\* strictly last in the listing sorted by order
AddAppendsLast ==
    LET n == Len(habits)
    IN  /\ Len(habits') = n + 1
        /\ SubSeq(habits', 1, n) = habits
        /\ habits'[n + 1].order =
              IF n = 0 THEN 0 ELSE 1 + Max({habits[i].order : i \in 1..n})
        /\ \A i \in 1..n : habits[i].order < habits'[n + 1].order

\* the registry part of C11 alone
AddOrderRule == [][ AddedStep => AddAppendsLast ]_vars

\* C11: add-habit with a non-empty name appends exactly one habit whose order
\* is 1 + the greatest existing order (0 for an empty registry), so that it is
\* strictly last in the order-sorted listing, and changes neither the ledger
\* nor the points.
C11_AddAppendsLast ==
    [][ AddedStep =>
          /\ AddAppendsLast
          /\ completions' = completions
          /\ points' = points ]_vars

\* C12: the registry is append-only: across every step the previous
\* state.habits is a prefix of the next one.
C12_RegistryAppendOnly ==
    [][ /\ Len(habits) <= Len(habits')
        /\ SubSeq(habits', 1, Len(habits)) = habits ]_vars

\* C12 witness: a habit has been appended behind the three starters
C12_Witness ==
    /\ last.op = "add"
    /\ Len(habits) = Len(DEFAULT_HABITS) + 1
    /\ habits[Len(habits)].name = Str(0, "Run", 0)

\* C13: a day entry of the ledger, once created, is in the ledger of every
\* later state.
C13_DayEntryKept ==
    [][ DOMAIN completions \subseteq DOMAIN completions' ]_vars

\* C13 witness: today's entry held a done habit, was cleared and is still
\* there, next to the entry of an earlier day
C13_Witness ==
    /\ last.op = "clear"
    /\ last.hadEntry
    /\ last.preDone > 0
    /\ today \in DOMAIN completions
    /\ \E d \in DOMAIN completions : d < today

\* C14: the ledger is sparse: a day gets its entry by a toggle (or keeps it
\* through a clear-day), never by rendering.  So right after startup, and
\* right after an add-habit on a day that had no entry, today has no entry
\* (the day is unrecorded, not missed).
C14_LedgerSparse ==
    (last.op \in {"init", "add"} /\ ~last.hadEntry) => today \notin DOMAIN completions

\* the state written through: what saveState would store now
Snapshot == saveState(habits, completions, points)

\* toggle and clear-day alone write through
ToggleAndClearWriteThrough ==
    [][ (last'.op = "toggle" \/ (last'.op = "clear" /\ last'.hadEntry))
          => storage' = Snapshot' ]_vars

\* C15: write-through persistence: once the state has been saved, after every
\* toggle, add-habit and clear-day (with the renders it triggers) the persisted
\* snapshot is the whole in-memory state.
C15_WriteThrough ==
    (last.op \in {"toggle", "clear", "add"} /\ storage # NoStorage)
        => storage = Snapshot

-----------------------------------------------------------------------------
(* Startup from what the storage holds.  Here the three fields of `state`   *)
(* are held as JavaScript values, since a loaded object may have any shape:  *)
(* a value is a record with its `type` and, but for undefined and null, its  *)
(* `val`.                                                                    *)

JsUndefined == [type |-> "undefined"]
JsNull == [type |-> "null"]
JsNumber(n) == [type |-> "number", val |-> n]
JsString(str) == [type |-> "string", val |-> str]
JsArray(seq) == [type |-> "array", val |-> seq]
JsObject(fn) == [type |-> "object", val |-> fn]

\* an object with the fields of AppState; a missing field reads undefined
JsState(h, c, p) == [type |-> "object", habits |-> h, completions |-> c, points |-> p]

\* !v is false
JsTruthy(v) ==
    CASE v.type \in {"undefined", "null"} -> FALSE
      [] v.type = "number" -> v.val # 0
      [] v.type = "string" -> v.val # ""
      [] OTHER -> TRUE

\* what localStorage may hold under STORAGE_KEY besides nothing: text that
\* JSON.parse rejects, or the text of a JSON value
Unparsable == [text |-> "{\"habits\":["]
Parsable(v) == [json |-> v]

StoredHabits ==
    { JsUndefined, JsNumber(7), JsArray(<< >>), JsArray(createInitialState.habits) }

StoredCompletions ==
    { JsUndefined, JsNull, JsNumber(0), JsObject(EmptyDay),
      JsObject(0 :> ("water" :> TRUE)) }

StoredPoints ==
    { JsUndefined, JsString("5"), JsNumber(0 - 5), JsNumber(0), JsNumber(5) }

StoredValues ==
    { NoStorage, Unparsable, Parsable(JsNull), Parsable(JsNumber(0)) }
    \cup { Parsable(JsState(h, c, p)) :
             h \in StoredHabits, c \in StoredCompletions, p \in StoredPoints }

\* loadState: null for nothing stored and for text that does not parse
loadState(stored) ==
    IF stored = NoStorage \/ stored = Unparsable THEN JsNull ELSE stored.json

\* createInitialState(), as a JavaScript object
DefaultState ==
    JsState(JsArray(createInitialState.habits),
            JsObject(createInitialState.completions),
            JsNumber(createInitialState.points))

\* let state = loadState() || createInitialState();
\* if (!state.completions) state.completions = {};
StartupState(stored) ==
    LET loaded == loadState(stored)
        st     == IF JsTruthy(loaded) THEN loaded ELSE DefaultState
    IN  IF JsTruthy(st.completions) THEN st
        ELSE [st EXCEPT !.completions = JsObject(EmptyDay)]

NotLoaded == [op |-> "boot"]

\* before the script runs: `state` is not there yet
InitStartup ==
    /\ today = 0
    /\ tick = 0
    /\ storage \in StoredValues
    /\ habits = JsUndefined
    /\ completions = JsUndefined
    /\ points = JsUndefined
    /\ levelView = Unrendered
    /\ nOps = 0
    /\ last = NotLoaded

\* the script up to the line that ensures state.completions
LoadAtStartup ==
    /\ last.op = "boot"
    /\ LET st == StartupState(storage)
       IN  /\ habits' = st.habits
           /\ completions' = st.completions
           /\ points' = st.points
    /\ last' = [op |-> "startup"]
    /\ UNCHANGED <<storage, today, tick, levelView, nOps>>

\* the initial render: renderHabitList ensures today's entry and then calls
\* state.habits.slice(), which throws unless habits is an array (the rest of
\* the script is then not run)
InitialRender ==
    /\ last.op = "startup"
    /\ completions' = JsObject(ensureDateEntry(completions.val, getTodayKey))
    /\ IF habits.type = "array"
       THEN /\ last' = [op |-> "rendered"]
            /\ levelView' = IF points.type = "number"
                            THEN renderPointsAndLevel(points.val)
                            ELSE levelView
       ELSE /\ last' = [op |-> "render threw"]
            /\ levelView' = levelView
    /\ UNCHANGED <<habits, points, storage, today, tick, nOps>>

NextStartup == LoadAtStartup \/ InitialRender

SpecStartup == InitStartup /\ [][NextStartup]_vars

\* a well-formed AppState: a habits list, a completions mapping, integer points >= 0
WellFormedState(st) ==
    /\ st.type = "object"
    /\ st.habits.type = "array"
    /\ st.completions.type = "object"
    /\ st.points.type = "number"
    /\ st.points.val \in Nat

\* the state in memory, as an object
StateNow == JsState(habits, completions, points)

\* C16 on storage that holds nothing, unparsable text, or a well-formed state
StartupOnSoundStorage ==
    (last.op = "startup" /\ (JsTruthy(loadState(storage)) => WellFormedState(storage.json)))
        => /\ WellFormedState(StateNow)
           /\ StateNow = (IF JsTruthy(loadState(storage)) THEN storage.json
                          ELSE DefaultState)

\* C16: whatever the storage holds, the state after startup is the loaded
\* well-formed state or the default AppState (three starter habits, empty
\* ledger, 0 points), and always has a habits list, a completions mapping and
\* integer points >= 0.
C16_StartupNormalized ==
    last.op = "startup" =>
        /\ WellFormedState(StateNow)
        /\ \/ StateNow = DefaultState
           \/ /\ storage \in { Parsable(JsState(h, c, p)) :
                      h \in StoredHabits, c \in StoredCompletions, p \in StoredPoints }
              /\ StateNow = storage.json

\* UTC is the only time zone of the browser
CalendarRangeInUTC ==
    LET days == buildCalendarRange(UTC, today, CalendarDays)
    IN  /\ Len(days) = CalendarDays
        /\ \A j \in 1..CalendarDays : days[j].key = today - (CalendarDays - j)

\* C17: buildCalendarRange(28) is 28 entries whose keys are consecutive days
\* in ascending order, oldest first, the last one today's key, in whatever
\* time zone the browser runs.
C17_CalendarRange ==
    \A z \in TimeZones :
        LET days == buildCalendarRange(z, today, CalendarDays)
        IN  /\ Len(days) = CalendarDays
            /\ days[CalendarDays].key = today
            /\ \A j \in 1..(CalendarDays - 1) : days[j + 1].key = days[j].key + 1

\* the (day, habit id) cells of the ledger that are true
TrueCells ==
    UNION { { <<d, h>> : h \in {g \in DOMAIN completions[d] : completions[d][g]} } :
            d \in DOMAIN completions }

\* C18: state.points is 5 times the number of true (day, habit id) cells of
\* the ledger; so the floor at zero never cuts a decrement short: a toggle
\* from done to not done finds at least 5 points, a clear-day at least 5 per
\* habit done today.
C18_PointsMatchLedger ==
    /\ points = 5 * Cardinality(TrueCells)
    /\ (last.op = "toggle" /\ last.wasDone /\ ~last.done) =>
           /\ last.prePoints >= 5
           /\ points = last.prePoints - 5
    /\ last.op = "clear" =>
           /\ last.prePoints >= 5 * last.preDone
           /\ points = last.prePoints - 5 * last.preDone

\* C18 witness: today was cleared with a habit done, and the points left are
\* those of a habit done on an earlier day
C18_Witness ==
    /\ last.op = "clear"
    /\ last.preDone = 1
    /\ points = 5
    /\ \E d \in DOMAIN completions, h \in HabitIds(habits) :
          d < today /\ isHabitDoneOnDate(completions, h, d)

\* every ledger entry of a day other than today is left as it was
OtherDaysKept ==
    \A d \in DOMAIN completions \ {today} :
        d \in DOMAIN completions' /\ completions'[d] = completions[d]

\* the frame of C19 with a habit taken as its id: a toggle leaves the
\* done-state of every other habit id on today unchanged
FrameByHabitId ==
    [][ /\ OtherDaysKept
        /\ last'.op \in {"toggle", "clear"} => habits' = habits
        /\ last'.op = "toggle" =>
              \A g \in HabitIds(habits) \ {last'.habitId} :
                  isHabitDoneOnDate(completions', g, today)
                      = isHabitDoneOnDate(completions, g, today) ]_vars

\* C19: toggle and clear-day modify only the ledger entry of today: every
\* entry of another day is left unchanged by every operation, a toggle of a
\* habit leaves the done-state on today of every other habit of the registry
\* unchanged, and neither operation changes state.habits.
C19_HistoryImmutable ==
    [][ /\ OtherDaysKept
        /\ last'.op \in {"toggle", "clear"} => habits' = habits
        /\ last'.op = "toggle" =>
              \E i \in 1..Len(habits) :
                  /\ habits[i].id = last'.habitId
                  /\ \A j \in (1..Len(habits)) \ {i} :
                        isHabitDoneOnDate(completions', habits[j].id, today)
                            = isHabitDoneOnDate(completions, habits[j].id, today) ]_vars

====
